---- MODULE Spec2Model ----
(***************************************************************************)
(* State-machine model of examples/python/oaif_examples.py: the OAIF file  *)
(* identity check (is_valid_oaif, open_oaif, create_oaif), the posting of  *)
(* journal entries (add_account, add_journal_entry) inside the implicit    *)
(* transaction of a sqlite3 connection (commit, close), and the trial      *)
(* balance audit (print_trial_balance).                                    *)
(*                                                                         *)
(* Amounts are integers in units of 0.001 (mills), so 0.005 is 5 and 0.01  *)
(* is 10.  Version strings "M.m" are the integer 10*M + m.                 *)
(***************************************************************************)
EXTENDS Integers, Sequences, FiniteSets

\* ---------------------------------------------------------------- constants
OAIF_APPLICATION_ID == 1330727238      \* 0x4F414946, "OAIF" in ASCII
OAIF_VERSION == 10                     \* "1.0"
TOLERANCE == 5                         \* 0.005: add_journal_entry's balance check
TB_TOLERANCE == 10                     \* 0.01: print_trial_balance's check

\* application_id of files that are not OAIF: sqlite's default and another
\* application's signature
ForeignApplicationIds == {0, 1397901399}
\* oaif_min_reader of the OAIF files found on disk: "1.0" and "2.0"
MinReaderVersions == {OAIF_VERSION, OAIF_VERSION + 10}
\* open_oaif's readonly argument
OpenModes == BOOLEAN

\* ------------------------------------------------------------------- bounds
MaxAccounts == 2       \* account rows the model creates
MaxHeaders == 2        \* txn_header rows the model creates
MaxPostings == 3       \* txn_header rows of the trial-balance runs
MaxLines == 2          \* lines of one journal entry
MaxRows == 3           \* txn_line rows the model creates

AccountIds == 1..MaxAccounts
\* amounts just over the tolerance (0.006), and amounts exactly at it (0.005)
Amounts == {-(TOLERANCE + 1), TOLERANCE + 1}
RoundingAmounts == {-TOLERANCE, TOLERANCE}
AccountTypeNames == {"BANK", "INCOME", "NO_SUCH_TYPE"}

\* The lines argument of add_journal_entry: dicts with account_id and amount
\* (description does not influence any claim and is left out).
Line == [account_id : AccountIds, amount : Amounts]
RoundingLine == [account_id : AccountIds, amount : RoundingAmounts]

VARIABLES
    file,     \* the file on disk: exists, application_id, oaif_min_reader
    db,       \* the committed tables of the file
    tx,       \* the tables as the connection sees them (db plus the open transaction)
    conn,     \* the sqlite3 connection: state, readonly, foreign_keys, accessed
    partial,  \* ids of the headers left behind by a call that raised part-way
    ret       \* the last call and how it ended: returned ("ok") or the exception

vars == <<file, db, tx, conn, partial, ret>>

\* ------------------------------------------------------------------ helpers
Abs(x) == IF x < 0 THEN -x ELSE x

Min(S) == CHOOSE x \in S : \A y \in S : x <= y

RECURSIVE SumAmounts(_)
\* sum(line['amount'] for line in lines)
SumAmounts(lines) ==
    IF lines = <<>> THEN 0 ELSE Head(lines).amount + SumAmounts(Tail(lines))

RECURSIVE SumRows(_)
\* SQL SUM(amount) over a set of txn_line rows
SumRows(rows) ==
    IF rows = {} THEN 0
    ELSE LET r == CHOOSE x \in rows : TRUE IN r.amount + SumRows(rows \ {r})

EmptyTables == [account |-> <<>>, txn_header |-> {}, txn_line |-> {}]

NoConn == [state |-> "none", readonly |-> FALSE, foreign_keys |-> FALSE,
           accessed |-> FALSE]

Ret(op, kind) == [op |-> op, kind |-> kind]

\* ------------------------------------------------------- file identity check
\* mutant: the signature is not compared
SignatureOk_unchecked(app_id) == TRUE

\* app_id == OAIF_APPLICATION_ID
SignatureOk(app_id) == app_id = OAIF_APPLICATION_ID

\* is_valid_oaif: its own read-only connection, PRAGMA application_id, close.
\* A missing file makes sqlite3.connect raise; the except branch returns False.
is_valid_oaif ==
    /\ conn.state = "none"
    /\ ret' = Ret("is_valid_oaif",
                  IF file.exists /\ SignatureOk(file.application_id)
                  THEN "True" ELSE "False")
    /\ UNCHANGED <<file, db, tx, conn, partial>>

\* open_oaif(filepath, readonly): connect, read PRAGMA application_id, close
\* and raise ValueError on a mismatch, else return the connection.  A missing
\* file makes the mode=ro connect raise; without mode=ro sqlite creates an
\* empty database, whose application_id is 0.
open_oaif(readonly) ==
    /\ conn.state = "none"
    /\ IF ~file.exists /\ readonly
       THEN /\ ret' = Ret("open_oaif", "OperationalError")
            /\ UNCHANGED <<file, conn>>
       ELSE LET app_id == IF file.exists THEN file.application_id ELSE 0
            IN /\ file' = [file EXCEPT !.exists = TRUE]
               /\ IF ~SignatureOk(app_id)
                  THEN /\ conn' = [NoConn EXCEPT !.state = "closed",
                                                 !.readonly = readonly]
                       /\ ret' = Ret("open_oaif", "ValueError")
                  ELSE /\ conn' = [NoConn EXCEPT !.state = "open",
                                                 !.readonly = readonly]
                       /\ ret' = Ret("open_oaif", "ok")
    /\ UNCHANGED <<db, tx, partial>>

\* create_oaif: new file, PRAGMA application_id / foreign_keys = ON, schema,
\* metadata rows oaif_version = oaif_min_reader = OAIF_VERSION, commit.
create_oaif ==
    /\ conn.state = "none"
    /\ ~file.exists
    /\ file' = [exists |-> TRUE, application_id |-> OAIF_APPLICATION_ID,
                oaif_min_reader |-> OAIF_VERSION]
    /\ db' = EmptyTables
    /\ tx' = EmptyTables
    /\ conn' = [state |-> "open", readonly |-> FALSE, foreign_keys |-> TRUE,
                accessed |-> TRUE]
    /\ partial' = {}
    /\ ret' = Ret("create_oaif", "ok")

\* conn.commit()
commit ==
    /\ conn.state = "open"
    /\ db' = tx
    /\ ret' = Ret("commit", "ok")
    /\ UNCHANGED <<file, tx, conn, partial>>

\* conn.close(): an open transaction is rolled back
close ==
    /\ conn.state = "open"
    /\ tx' = db
    /\ conn' = [conn EXCEPT !.state = "closed"]
    /\ partial' = {h \in partial : \E r \in db.txn_header : r.id = h}
    /\ ret' = Ret("close", "ok")
    /\ UNCHANGED <<file, db>>

\* ------------------------------------------------------------------ posting
\* Rows of the account_type reference table (schema seed data).
account_type == {"BANK", "INCOME"}

\* add_account(conn, name, account_type, code): look the type up, raise
\* ValueError when it is unknown, else insert the row and return lastrowid.
add_account(type_name) ==
    /\ conn.state = "open"
    /\ ~conn.readonly
    /\ conn' = [conn EXCEPT !.accessed = TRUE]
    /\ IF type_name \notin account_type
       THEN /\ ret' = Ret("add_account", "ValueError")
            /\ UNCHANGED tx
       ELSE /\ Len(tx.account) < MaxAccounts
            /\ tx' = [tx EXCEPT !.account = Append(@, [balance |-> 0])]
            /\ ret' = Ret("add_account", "ok")
    /\ UNCHANGED <<file, db, partial>>

\* mutant: the check uses the trial balance's 0.01
IsBalanced_lenient(total) == ~(Abs(total) > TB_TOLERANCE)

\* abs(total) > 0.005 raises; the entry is accepted otherwise
IsBalanced(total) == ~(Abs(total) > TOLERANCE)

\* cursor.lastrowid of the txn_header insert
NextHeaderId(t) == Cardinality(t.txn_header) + 1

\* INSERT INTO txn_header (txn_type_id, txn_date, memo, is_posted) VALUES (?, ?, ?, 1)
HeaderRow(hid) == [id |-> hid, is_posted |-> TRUE, is_voided |-> FALSE]

\* mutant: enumerate(lines) without the start of 1
LineRow_from_zero(hid, i, line) ==
    [txn_header_id |-> hid, line_number |-> i - 1,
     account_id |-> line.account_id, amount |-> line.amount]

\* mutant: the amount is stored with the wrong sign
LineRow_negated(hid, i, line) ==
    [txn_header_id |-> hid, line_number |-> i,
     account_id |-> line.account_id, amount |-> -line.amount]

\* the i-th INSERT INTO txn_line of the loop over enumerate(lines, 1)
LineRow(hid, i, line) ==
    [txn_header_id |-> hid, line_number |-> i,
     account_id |-> line.account_id, amount |-> line.amount]

\* txn_line.account_id REFERENCES account(id), enforced when foreign_keys = ON
ForeignKeyOk(t, fk, row) == fk => row.account_id \in DOMAIN t.account

\* How many of the line inserts run before one raises (all, when none does).
InsertedLines(t, fk, hid, lines) ==
    LET bad == {i \in 1..Len(lines) : ~ForeignKeyOk(t, fk, LineRow(hid, i, lines[i]))}
    IN IF bad = {} THEN Len(lines) ELSE Min(bad) - 1

\* Ledger Store apply_lines: persist the rows and move each referenced
\* account's balance by the signed amount of its rows.
apply_lines(t, rows) ==
    [t EXCEPT !.txn_line = @ \cup rows,
              !.account = [a \in DOMAIN t.account |->
                  [balance |-> t.account[a].balance
                               + SumRows({r \in rows : r.account_id = a})]]]

\* The body of add_journal_entry on tables t: what it raises or returns
\* (kind, value) and the tables it leaves behind in the connection.
JournalEntry(t, fk, lines) ==
    LET total == SumAmounts(lines)
        hid == NextHeaderId(t)
        n == InsertedLines(t, fk, hid, lines)
        rows == {LineRow(hid, i, lines[i]) : i \in 1..n}
        withHeader == [t EXCEPT !.txn_header = @ \cup {HeaderRow(hid)}]
    IN IF ~IsBalanced(total)
       THEN [kind |-> "ValueError", value |-> total, tables |-> t]
       ELSE IF n < Len(lines)
       THEN [kind |-> "IntegrityError", value |-> 0,
             tables |-> apply_lines(withHeader, rows)]
       ELSE [kind |-> "ok", value |-> hid, tables |-> apply_lines(withHeader, rows)]

\* add_journal_entry(conn, date, memo, lines) on a connection opened for
\* writing; an exception leaves the implicit transaction open.
add_journal_entry(lines) ==
    /\ conn.state = "open"
    /\ ~conn.readonly
    /\ LET out == JournalEntry(tx, conn.foreign_keys, lines)
       IN /\ tx' = out.tables
          /\ ret' = Ret("add_journal_entry", out.kind)
          /\ conn' = [conn EXCEPT !.accessed = @ \/ out.kind # "ValueError"]
          /\ partial' = IF out.kind = "IntegrityError"
                        THEN partial \cup {NextHeaderId(tx)} ELSE partial
    /\ UNCHANGED <<file, db>>

\* Room for one more entry within the model's bounds.
Room(maxHeaders, maxRows, n) ==
    /\ Cardinality(tx.txn_header) < maxHeaders
    /\ Cardinality(tx.txn_line) + n <= maxRows

\* ------------------------------------------------------------ trial balance
\* txn_line rows of posted, non-voided headers against account a
PostedRows(t, a) ==
    {r \in t.txn_line : /\ r.account_id = a
                        /\ \E h \in t.txn_header :
                              h.id = r.txn_header_id /\ h.is_posted /\ ~h.is_voided}

\* v_trial_balance: one row per account, debits = sum of the positive line
\* amounts, credits = sum of the absolute negative ones, balance = net
v_trial_balance(t) ==
    {[account_id |-> a,
      debits |-> SumRows({r \in PostedRows(t, a) : r.amount > 0}),
      credits |-> -SumRows({r \in PostedRows(t, a) : r.amount < 0}),
      balance |-> SumRows(PostedRows(t, a))] : a \in DOMAIN t.account}

RECURSIVE SumField(_, _)
SumField(rows, f) ==
    IF rows = {} THEN 0
    ELSE LET r == CHOOSE x \in rows : TRUE IN r[f] + SumField(rows \ {r}, f)

\* total_debits - total_credits over SELECT * FROM v_trial_balance WHERE balance != 0
TrialDiff(t) ==
    LET rows == {r \in v_trial_balance(t) : r.balance # 0}
    IN SumField(rows, "debits") - SumField(rows, "credits")

\* abs(diff) > 0.01 prints OUT OF BALANCE
OutOfBalance(diff) == Abs(diff) > TB_TOLERANCE

print_trial_balance ==
    /\ conn.state = "open"
    /\ conn' = [conn EXCEPT !.accessed = TRUE]
    /\ ret' = Ret("print_trial_balance",
                  IF OutOfBalance(TrialDiff(tx)) THEN "out_of_balance" ELSE "in_balance")
    /\ UNCHANGED <<file, db, tx, partial>>

Init ==
    /\ file \in {[exists |-> FALSE, application_id |-> 0, oaif_min_reader |-> 0]}
            \cup [exists : {TRUE}, application_id : ForeignApplicationIds,
                  oaif_min_reader : {0}]
            \cup [exists : {TRUE}, application_id : {OAIF_APPLICATION_ID},
                  oaif_min_reader : MinReaderVersions]
    /\ db = EmptyTables
    /\ tx = EmptyTables
    /\ conn = NoConn
    /\ partial = {}
    /\ ret = Ret("none", "ok")

\* add_journal_entry with any entry of at most MaxLines lines over L that the
\* bounds leave room for
post(maxHeaders, maxRows, L) ==
    \E n \in 0..MaxLines :
        /\ Room(maxHeaders, maxRows, n)
        /\ \E lines \in [1..n -> L] : add_journal_entry(lines)

Next ==
    \/ is_valid_oaif
    \/ \E readonly \in OpenModes : open_oaif(readonly)
    \/ create_oaif
    \/ \E type_name \in AccountTypeNames : add_account(type_name)
    \/ post(MaxHeaders, MaxRows, Line)
    \/ print_trial_balance
    \/ commit
    \/ close

Spec == Init /\ [][Next]_vars

\* The same program posting rounding residues, with room for MaxPostings
\* entries: the runs the trial balance is audited on.
NextTB ==
    \/ is_valid_oaif
    \/ \E readonly \in OpenModes : open_oaif(readonly)
    \/ create_oaif
    \/ \E type_name \in AccountTypeNames : add_account(type_name)
    \/ post(MaxPostings, MaxPostings, RoundingLine)
    \/ print_trial_balance
    \/ commit
    \/ close

SpecTB == Init /\ [][NextTB]_vars

\* ================================================================== claims
\* A state in which the caller can post: a connection open for writing.
Posting == conn.state = "open" /\ ~conn.readonly

\* The entries the caller can pass in this state (those there is room for).
Entries ==
    UNION {[1..n -> Line] : n \in {m \in 0..MaxLines : Room(MaxHeaders, MaxRows, m)}}

\* What add_journal_entry(lines) would do in this state.
Out(lines) == JournalEntry(tx, conn.foreign_keys, lines)

HeaderLines(t, hid) == {r \in t.txn_line : r.txn_header_id = hid}

\* amount of the entry's lines against account a
LineSum(lines, a) == SumAmounts(SelectSeq(lines, LAMBDA l : l.account_id = a))

AllAccountsExist(lines) ==
    \A i \in 1..Len(lines) : lines[i].account_id \in DOMAIN tx.account

\* C1: every committed header that is posted and not voided has line amounts
\* summing to zero within the tolerance.
C1_ZeroSumInvariant ==
    \A h \in db.txn_header :
        (h.is_posted /\ ~h.is_voided) =>
            Abs(SumRows(HeaderLines(db, h.id))) <= TOLERANCE

C3_UnbalancedEntryRejected ==
    Posting =>
        \A lines \in Entries :
            (Abs(SumAmounts(lines)) > TOLERANCE) =>
                LET out == Out(lines)
                IN /\ out.kind = "ValueError"
                   /\ out.value = SumAmounts(lines)
                   /\ out.tables = tx

\* C3 witness: an unbalanced entry was rejected on a store that already holds
\* a header, with uncommitted rows in the transaction.
C3_Witness ==
    /\ ret = Ret("add_journal_entry", "ValueError")
    /\ tx.txn_line # {}
    /\ tx # db

\* C4: a balanced entry with a line against a nonexistent account raises and
\* leaves the tables unchanged (any exception is accepted as the
\* unknown-account error).
C4_UnknownAccountRejected ==
    Posting =>
        \A lines \in Entries :
            (Abs(SumAmounts(lines)) <= TOLERANCE /\ ~AllAccountsExist(lines)) =>
                LET out == Out(lines)
                IN out.kind # "ok" /\ out.tables = tx

C6_NoPartialPosting ==
    \A h \in db.txn_header : h.id \notin partial

\* C7: an empty entry is rejected and writes nothing.
C7_EmptyEntryRejected ==
    Posting => (Out(<<>>).kind # "ok" /\ Out(<<>>).tables = tx)

\* C8: for a file whose application_id is not the OAIF signature, open_oaif
\* raises ValueError with the connection closed, no connection to it is ever
\* open and none of its tables is ever accessed.
C8_SignatureGate ==
    (file.exists /\ file.application_id # OAIF_APPLICATION_ID) =>
        /\ conn.state # "open"
        /\ ~conn.accessed
        /\ tx = db
        /\ ret.op = "open_oaif" => (ret.kind = "ValueError" /\ conn.state = "closed")

\* C8 witness: open_oaif was called on a file with a foreign signature.
C8_Witness ==
    /\ file.exists
    /\ file.application_id \in ForeignApplicationIds
    /\ ret = Ret("open_oaif", "ValueError")
    /\ conn.state = "closed"

\* C9: no connection is open on a file whose oaif_min_reader exceeds the
\* version this implementation writes and reads.
C9_NewerStoreRefused ==
    conn.state = "open" => file.oaif_min_reader <= OAIF_VERSION

\* C10: the rows stored for the header of a successful call are exactly one
\* row per input line, numbered 1..n in input order, with that line's
\* account id and amount.
C10_LineNumbers ==
    Posting =>
        \A lines \in Entries :
            LET out == Out(lines)
            IN out.kind = "ok" =>
                 /\ HeaderLines(tx, out.value) = {}
                 /\ HeaderLines(out.tables, out.value) =
                        {[txn_header_id |-> out.value, line_number |-> i,
                          account_id |-> lines[i].account_id,
                          amount |-> lines[i].amount] : i \in 1..Len(lines)}

\* C10 witness: a two-line entry was posted after an earlier header, and its
\* rows 1 and 2 differ.
C10_Witness ==
    /\ ret = Ret("add_journal_entry", "ok")
    /\ \E h \in tx.txn_header :
          /\ h.id = Cardinality(tx.txn_header)
          /\ h.id > 1
          /\ \E r1, r2 \in HeaderLines(tx, h.id) :
                /\ r1.line_number = 1 /\ r2.line_number = 2
                /\ r1.account_id # r2.account_id
====
